---- MODULE Spec2Model ----
(***************************************************************************)
(* Model of src/mdp.py: the deterministic grid-world MDP (GridWorldMDP).   *)
(*                                                                         *)
(* Numbers.  A reward is a real number; the model writes a finite reward   *)
(* as the integer count of halves (10 is written 20, 0.5 is written 1,     *)
(* -1.5 is written -3), so that non-integral rewards exist and the integer *)
(* cast numpy applies to an integer-typed array is not the identity.       *)
(* float('-inf') is the distinguished value NegInf.                        *)
(*                                                                         *)
(* Exceptions.  A Python call either returns a value, Ok(v), or raises,    *)
(* Raise(e); a raise inside a callee propagates through the caller.        *)
(*                                                                         *)
(* Arrays.  A numpy array is an object on the heap; an instance holds the  *)
(* address of its rewards table, so that two instances sharing one table   *)
(* is a state the model can express.                                       *)
(***************************************************************************)
EXTENDS Integers, Sequences, FiniteSets, TLC

VARIABLES
    args,   \* the arguments GridWorldMDP.__init__ was called with
    objs,   \* the live instances: name -> fields of the instance
    heap,   \* address -> rewards table (S x A), rewards[s][a]
    last    \* the most recent call: operation, receiver, argument, outcome

vars == <<args, objs, heap, last>>

----------------------------------------------------------------------------
(* Bounds of the model *)

MaxRows == 2
MaxCols == 2
MaxOverrides == 1
\* the grids of the two-instance specification SpecCopy
MaxCopyRows == 2
MaxCopyCols == 1
\* the integers tried beyond each end of a valid range
Margin == 1

----------------------------------------------------------------------------
(* class Actions(IntEnum) *)

UP == 0
DOWN == 1
LEFT == 2
RIGHT == 3
UP_LEFT == 4
UP_RIGHT == 5
DOWN_LEFT == 6
DOWN_RIGHT == 7
ABSORB == 8

Actions == {UP, DOWN, LEFT, RIGHT, UP_LEFT, UP_RIGHT, DOWN_LEFT, DOWN_RIGHT, ABSORB}

\* float('-inf')
NegInf == -1000

\* Python's None and a present optional value
None == << >>
Some(x) == <<x>>

Ok(v) == [exc |-> "none", val |-> v]
Raise(e) == [exc |-> e]

\* A local name for a value: Bind(e, LAMBDA x : body) is the body with x
\* standing for the value of e.
Bind(e, Body(_)) == Body(e)

----------------------------------------------------------------------------
(* Coordinates and states *)

coor_to_state_transposed(self, r, c) ==
    IF ~(0 <= r /\ r < self.rows) THEN Raise("AssertionError")
    ELSE IF ~(0 <= c /\ c < self.cols) THEN Raise("AssertionError")
    ELSE Ok(c * self.cols + r)

coor_to_state(self, r, c) ==
    IF ~(0 <= r /\ r < self.rows) THEN Raise("AssertionError")
    ELSE IF ~(0 <= c /\ c < self.cols) THEN Raise("AssertionError")
    ELSE Ok(r * self.cols + c)

\* Python's // and % with a positive divisor are floor division and the
\* non-negative remainder, as \div and % are.  Only the upper bound of s is
\* asserted.
state_to_coor(self, s) ==
    IF ~(s < self.rows * self.cols) THEN Raise("AssertionError")
    ELSE Ok(<<s \div self.cols, s % self.cols>>)

Shift_mirrored(r, c, a) ==
    CASE a = UP -> Ok(<<r - 1, c>>)
      [] a = DOWN -> Ok(<<r + 1, c>>)
      [] a = LEFT -> Ok(<<r, c - 1>>)
      [] a = RIGHT -> Ok(<<r, c + 1>>)
      [] a = UP_LEFT -> Ok(<<r - 1, c + 1>>)
      [] a = UP_RIGHT -> Ok(<<r - 1, c - 1>>)
      [] a = DOWN_LEFT -> Ok(<<r + 1, c - 1>>)
      [] a = DOWN_RIGHT -> Ok(<<r + 1, c + 1>>)
      [] a = ABSORB -> Ok(<<r, c>>)
      [] OTHER -> Raise("BaseException")

\* The if/elif chain of _transition: the shifted coordinate, or the raise of
\* the final else.
Shift(r, c, a) ==
    CASE a = UP -> Ok(<<r - 1, c>>)
      [] a = DOWN -> Ok(<<r + 1, c>>)
      [] a = LEFT -> Ok(<<r, c - 1>>)
      [] a = RIGHT -> Ok(<<r, c + 1>>)
      [] a = UP_LEFT -> Ok(<<r - 1, c - 1>>)
      [] a = UP_RIGHT -> Ok(<<r - 1, c + 1>>)
      [] a = DOWN_LEFT -> Ok(<<r + 1, c - 1>>)
      [] a = DOWN_RIGHT -> Ok(<<r + 1, c + 1>>)
      [] a = ABSORB -> Ok(<<r, c>>)
      [] OTHER -> Raise("BaseException")

OutOfGrid(self, r_prime, c_prime) ==
    r_prime < 0 \/ r_prime >= self.rows \/ c_prime < 0 \/ c_prime >= self.cols

_transition(self, s, a, alert_illegal) ==
    Bind(state_to_coor(self, s), LAMBDA rc :
    IF rc.exc # "none" THEN rc
    ELSE IF ~(a >= 0 /\ a < Cardinality(Actions)) THEN Raise("AssertionError")
    ELSE
      Bind(Shift(rc.val[1], rc.val[2], a), LAMBDA sh :
      IF sh.exc # "none" THEN sh
      ELSE
        Bind(OutOfGrid(self, sh.val[1], sh.val[2]), LAMBDA illegal :
        Bind(coor_to_state(self, IF illegal THEN rc.val[1] ELSE sh.val[1],
                                 IF illegal THEN rc.val[2] ELSE sh.val[2]),
             LAMBDA s_prime :
        IF s_prime.exc # "none" THEN s_prime
        ELSE IF alert_illegal THEN Ok(<<s_prime.val, illegal>>)
        ELSE Ok(s_prime.val)))))

----------------------------------------------------------------------------
(* The rewards table *)

\* rewards[:, ABSORB].fill(v)
FillAbsorb(tbl, v) == [s \in DOMAIN tbl |-> [tbl[s] EXCEPT ![ABSORB] = v]]

\* the row an integer index selects in an array of S rows
RowIndex(g, S) == IF g < 0 THEN g + S ELSE g

set_goal_nofill(tbl, goal_state) ==
    IF goal_state # None
    THEN IF goal_state[1] >= Cardinality(DOMAIN tbl)
            \/ goal_state[1] < -Cardinality(DOMAIN tbl)
         THEN [exc |-> "IndexError", tbl |-> tbl]
         ELSE [exc |-> "none",
               tbl |-> [tbl EXCEPT
                   ![RowIndex(goal_state[1], Cardinality(DOMAIN tbl))][ABSORB] = 0]]
    ELSE [exc |-> "none", tbl |-> tbl]

\* The column is filled first; the indexed write follows numpy's indexing:
\* an index in [-S, 0) counts from the end, an index outside [-S, S) raises
\* IndexError (after the fill).
set_goal(tbl, goal_state) ==
    Bind(FillAbsorb(tbl, NegInf), LAMBDA filled :
    IF goal_state # None
    THEN IF goal_state[1] >= Cardinality(DOMAIN tbl)
            \/ goal_state[1] < -Cardinality(DOMAIN tbl)
         THEN [exc |-> "IndexError", tbl |-> filled]
         ELSE [exc |-> "none",
               tbl |-> [filled EXCEPT
                   ![RowIndex(goal_state[1], Cardinality(DOMAIN tbl))][ABSORB] = 0]]
    ELSE [exc |-> "none", tbl |-> filled])

set_all_goals_wholetable(tbl) == [s \in DOMAIN tbl |-> [a \in DOMAIN tbl[s] |-> 0]]

set_all_goals(tbl) == FillAbsorb(tbl, 0)

\* One iteration of the double loop of __init__: the entry rewards[s, a],
\* or the exception a callee raised.  The table is first filled with
\* default_reward, which an entry keeps when the move is legal and its
\* destination has no override.
RewardEntry_overridefirst(self, reward_dict, default_reward, s, a) ==
    Bind(_transition(self, s, a, TRUE), LAMBDA t :
    IF t.exc # "none" THEN t
    ELSE
      Bind(state_to_coor(self, t.val[1]), LAMBDA coor :
      IF coor.exc # "none" THEN coor
      ELSE IF coor.val \in DOMAIN reward_dict THEN Ok(reward_dict[coor.val])
      ELSE IF ~t.val[2] THEN Ok(default_reward.v)
      ELSE Ok(NegInf)))

\* t is (s_prime, illegal)
RewardEntry(self, reward_dict, default_reward, s, a) ==
    Bind(_transition(self, s, a, TRUE), LAMBDA t :
    IF t.exc # "none" THEN t
    ELSE
      Bind(state_to_coor(self, t.val[1]), LAMBDA coor :
      IF coor.exc # "none" THEN coor
      ELSE IF ~t.val[2]
           THEN IF coor.val \in DOMAIN reward_dict THEN Ok(reward_dict[coor.val])
                ELSE Ok(default_reward.v)
           ELSE Ok(NegInf)))

\* Storing x into an array of integer dtype truncates towards zero.
IntCast(x) == IF x >= 0 THEN 2 * (x \div 2) ELSE -(2 * ((-x) \div 2))

\* np.full([S], default_reward) takes its dtype from default_reward; the
\* override values are then stored into that array, each at the state of
\* its key (coor_to_state is one-to-one on the keys it accepts).
StateRewards(self, reward_dict, default_reward) ==
    [s \in 0 .. (self.rows * self.cols - 1) |->
        LET keys == {k \in DOMAIN reward_dict :
                        coor_to_state(self, k[1], k[2]) = Ok(s)}
        IN IF keys = {} THEN default_reward.v
           ELSE LET k == CHOOSE k \in keys : TRUE
                IN IF default_reward.isint THEN IntCast(reward_dict[k])
                   ELSE reward_dict[k]]

\* The double loop of __init__: every entry, or the exception raised
RewardLoop(self, reward_dict, default_reward) ==
    [s \in 0 .. (self.rows * self.cols - 1) |->
        [a \in 0 .. (Cardinality(Actions) - 1) |->
            RewardEntry(self, reward_dict, default_reward, s, a)]]

\* GridWorldMDP.__init__ for positive rows and cols: the exception it raises
\* or, when it returns, the fields of the new instance and its rewards table.
__init__(rows, cols, reward_dict, goal_state, default_reward) ==
    Bind([rows |-> rows, cols |-> cols], LAMBDA self :
    Bind(RewardLoop(self, reward_dict, default_reward), LAMBDA entry :
    IF \/ \E s \in DOMAIN entry : \E a \in DOMAIN entry[s] : entry[s][a].exc # "none"
       \/ \E k \in DOMAIN reward_dict : coor_to_state(self, k[1], k[2]).exc # "none"
    THEN [exc |-> "AssertionError"]
    ELSE
      Bind(set_goal([s \in DOMAIN entry |-> [a \in DOMAIN entry[s] |-> entry[s][a].val]],
                    goal_state),
           LAMBDA g :
      [exc |-> g.exc,
       fields |-> [rows |-> rows, cols |-> cols,
                   S |-> rows * cols, A |-> Cardinality(Actions),
                   state_rewards |-> StateRewards(self, reward_dict, default_reward)],
       rewards |-> g.tbl])))

----------------------------------------------------------------------------
(* The heap *)

NewAddr(h) == CHOOSE n \in 1 .. (Cardinality(DOMAIN h) + 1) : n \notin DOMAIN h

Alloc(h, tbl) == [heap |-> h @@ (NewAddr(h) :> tbl), addr |-> NewAddr(h)]

np_copy_alias(h, addr) == [heap |-> h, addr |-> addr]

\* np.copy: a new array with the same entries
np_copy(h, addr) == Alloc(h, h[addr])

\* An array no instance refers to is freed.
Collect(h, os) ==
    [n \in {os[o].rewards : o \in DOMAIN os} |-> h[n]]

\* The default of the parameter default_reward, the int 0
DefaultReward == [v |-> 0, isint |-> TRUE]

EmptyDict == << >>

----------------------------------------------------------------------------
(* Inputs *)

\* default_reward: 0 and 5 as ints, 1.5 as a float
Defaults == {[v |-> 0, isint |-> TRUE], [v |-> 10, isint |-> TRUE],
             [v |-> 3, isint |-> FALSE]}

\* override values: 10 and -1.5
OverrideVals == {20, -3}

Coors(rows, cols) == (0 .. (rows - 1)) \X (0 .. (cols - 1))

RewardDicts(rows, cols) ==
    UNION {[K -> OverrideVals] :
              K \in {K \in SUBSET Coors(rows, cols) : Cardinality(K) <= MaxOverrides}}

GoalStates(S) == {None} \cup {Some(g) : g \in 0 .. (S - 1)}

\* the arguments a caller passes to set_goal: None, every valid state, and
\* integers on both sides of [0, S)
GoalArgs(S) == {None} \cup {Some(g) : g \in (-(S + Margin)) .. (S + Margin - 1)}

----------------------------------------------------------------------------
(* The instance and its goal reconfiguration *)

Table(o) == heap[objs[o].rewards]

\* The state after self = GridWorldMDP(rows, cols, reward_dict, goal_state,
\* default_reward) has returned.
Constructed(rows, cols, reward_dict, goal_state, default_reward) ==
    Bind(__init__(rows, cols, reward_dict, goal_state, default_reward), LAMBDA new :
    Bind(Alloc(<< >>, new.rewards), LAMBDA al :
       /\ new.exc = "none"
       /\ args = [rows |-> rows, cols |-> cols, reward_dict |-> reward_dict,
                  goal_state |-> goal_state, default_reward |-> default_reward]
       /\ objs = [o \in {"self"} |-> new.fields @@ [rewards |-> al.addr]]
       /\ heap = al.heap
       /\ last = [op |-> "__init__", obj |-> "self", arg |-> goal_state,
                  res |-> Ok(None)]))

Init ==
    \E rows \in 1 .. MaxRows, cols \in 1 .. MaxCols :
      \E reward_dict \in RewardDicts(rows, cols),
         goal_state \in GoalStates(rows * cols),
         default_reward \in Defaults :
        Constructed(rows, cols, reward_dict, goal_state, default_reward)

SetGoal(o, goal_state) ==
    Bind(set_goal(Table(o), goal_state), LAMBDA res :
    /\ heap' = [heap EXCEPT ![objs[o].rewards] = res.tbl]
    /\ last' = [op |-> "set_goal", obj |-> o, arg |-> goal_state,
                res |-> IF res.exc = "none" THEN Ok(None) ELSE Raise(res.exc)]
    /\ UNCHANGED <<args, objs>>)

SetAllGoals(o) ==
    /\ heap' = [heap EXCEPT ![objs[o].rewards] = set_all_goals(Table(o))]
    /\ last' = [op |-> "set_all_goals", obj |-> o, arg |-> None, res |-> Ok(None)]
    /\ UNCHANGED <<args, objs>>

Next ==
    \/ \E o \in DOMAIN objs : \E g \in GoalArgs(objs[o].S) : SetGoal(o, g)
    \/ \E o \in DOMAIN objs : SetAllGoals(o)

Spec == Init /\ [][Next]_vars

----------------------------------------------------------------------------
(* Two instances: cp = self.copy() *)

\* The source is constructed without a goal; set_goal and set_all_goals then
\* bring its ABSORB column to every configuration before or after the copy.
InitCopy ==
    \E rows \in 1 .. MaxCopyRows, cols \in 1 .. MaxCopyCols :
      \E reward_dict \in RewardDicts(rows, cols), default_reward \in Defaults :
        Constructed(rows, cols, reward_dict, None, default_reward)

\* cp = self.copy(): a fresh instance over an empty dict, whose rewards
\* field is then rebound to a copy of the source's table.
Copy ==
    /\ "cp" \notin DOMAIN objs
    /\ Bind(__init__(objs["self"].rows, objs["self"].cols, EmptyDict, None,
                     DefaultReward), LAMBDA new :
       Bind(np_copy(Alloc(heap, new.rewards).heap, objs["self"].rewards), LAMBDA a2 :
       Bind([o \in {"self", "cp"} |->
                IF o = "cp" THEN new.fields @@ [rewards |-> a2.addr]
                ELSE objs["self"]], LAMBDA os :
          /\ objs' = os
          /\ heap' = Collect(a2.heap, os))))
    /\ last' = [op |-> "copy", obj |-> "self", arg |-> None, res |-> Ok(None)]
    /\ UNCHANGED args

NextCopy == Next \/ Copy

SpecCopy == InitCopy /\ [][NextCopy]_vars

----------------------------------------------------------------------------
(* The pure functions, called on an instance with arguments inside and      *)
(* outside their valid ranges                                               *)

InitFn ==
    \E rows \in 1 .. MaxRows, cols \in 1 .. MaxCols :
        Constructed(rows, cols, EmptyDict, None, DefaultReward)

CallCoorToState(r, c) ==
    /\ last' = [op |-> "coor_to_state", obj |-> "self", arg |-> <<r, c>>,
                res |-> coor_to_state(objs["self"], r, c)]
    /\ UNCHANGED <<args, objs, heap>>

CallStateToCoor(s) ==
    /\ last' = [op |-> "state_to_coor", obj |-> "self", arg |-> <<s>>,
                res |-> state_to_coor(objs["self"], s)]
    /\ UNCHANGED <<args, objs, heap>>

CallTransition(s, a, alert_illegal) ==
    /\ last' = [op |-> "_transition", obj |-> "self", arg |-> <<s, a, alert_illegal>>,
                res |-> _transition(objs["self"], s, a, alert_illegal)]
    /\ UNCHANGED <<args, objs, heap>>

NextFn ==
    \/ \E r \in (-Margin) .. (objs["self"].rows + Margin - 1),
          c \in (-Margin) .. (objs["self"].cols + Margin - 1) : CallCoorToState(r, c)
    \/ \E s \in (-Margin) .. (objs["self"].S + Margin - 1) : CallStateToCoor(s)
    \/ \E s \in (-Margin) .. (objs["self"].S + Margin - 1),
          a \in (-Margin) .. (Cardinality(Actions) + Margin - 1),
          alert_illegal \in BOOLEAN : CallTransition(s, a, alert_illegal)

SpecFn == InitFn /\ [][NextFn]_vars

----------------------------------------------------------------------------
(* The grid as the specification describes it: the row-major encoding       *)
(* s = r * cols + c and the fixed delta of each action                      *)

Cells(o) == (0 .. (o.rows - 1)) \X (0 .. (o.cols - 1))

States(o) == 0 .. (o.rows * o.cols - 1)

CellOf(o, s) == CHOOSE rc \in Cells(o) : rc[1] * o.cols + rc[2] = s

Delta(a) ==
    <<<<-1, 0>>, <<1, 0>>, <<0, -1>>, <<0, 1>>,
      <<-1, -1>>, <<-1, 1>>, <<1, -1>>, <<1, 1>>, <<0, 0>>>>[a + 1]

Moved(o, s, a) == <<CellOf(o, s)[1] + Delta(a)[1], CellOf(o, s)[2] + Delta(a)[2]>>

Movement == Actions \ {ABSORB}

----------------------------------------------------------------------------
(* Claims checked under Spec *)

C1_Expected(s, a) ==
    LET o == objs["self"]
        dest == Moved(o, s, a)
    IN IF a = ABSORB THEN (IF args.goal_state = Some(s) THEN 0 ELSE NegInf)
       ELSE IF dest \notin Cells(o) THEN NegInf
       ELSE IF dest \in DOMAIN args.reward_dict THEN args.reward_dict[dest]
       ELSE args.default_reward.v

C2_ValidArg == last.arg = None \/ last.arg[1] \in States(objs[last.obj])

C2_Column ==
    (last.op = "set_goal" /\ C2_ValidArg) =>
        /\ last.res = Ok(None)
        /\ \A s \in States(objs[last.obj]) :
              Table(last.obj)[s][ABSORB] = IF last.arg = Some(s) THEN 0 ELSE NegInf

C2_Idempotent ==
    (/\ last.op = "set_goal" /\ C2_ValidArg
     /\ last'.op = "set_goal" /\ last'.obj = last.obj /\ last'.arg = last.arg)
    => heap' = heap

\* C2: after any sequence of set_goal and set_all_goals calls, right after
\* set_goal(g) with g a valid state the ABSORB column is 0 at g and -inf at
\* every other state, and right after set_goal(None) it is -inf everywhere;
\* repeating the call leaves the table as it is.
C2_SetGoal == []C2_Column /\ [][C2_Idempotent]_vars

\* set_goal(g) has just returned on an instance constructed with another goal.
C2_Witness ==
    /\ last.op = "set_goal"
    /\ last.arg # None /\ args.goal_state # None /\ last.arg # args.goal_state
    /\ last.arg[1] \in States(objs["self"])
    /\ Table("self")[last.arg[1]][ABSORB] = 0
    /\ Table("self")[args.goal_state[1]][ABSORB] = NegInf

C3_Frame ==
    \A o \in DOMAIN objs :
        /\ objs'[o] = objs[o]
        /\ \A s \in States(objs[o]), a \in Movement :
              heap'[objs'[o].rewards][s][a] = heap[objs[o].rewards][s][a]

C3_Movement ==
    /\ objs["self"].rows = args.rows /\ objs["self"].cols = args.cols
    /\ \A s \in States(objs["self"]), a \in Movement :
          Table("self")[s][a] = C1_Expected(s, a)

\* C3: every call of set_goal and set_all_goals leaves every entry of the
\* eight movement columns, and rows, cols and state_rewards, as they were;
\* so the movement columns always hold their construction-time values.
C3_OnlyAbsorb == [][C3_Frame]_vars /\ []C3_Movement

\* set_all_goals has returned on a table whose movement columns hold an
\* override value and a -inf.
C3_Witness ==
    /\ last.op = "set_all_goals"
    /\ \E s \in States(objs["self"]), a \in Movement : Table("self")[s][a] = NegInf
    /\ \E s \in States(objs["self"]), a \in Movement :
          Table("self")[s][a] \in OverrideVals
    /\ \A s \in States(objs["self"]) : Table("self")[s][ABSORB] = 0

\* C8: constructed without a goal state, ABSORB has reward 0 at every state.
C8_NoGoalAbsorbEverywhere ==
    (last.op = "__init__" /\ args.goal_state = None) =>
        \A s \in States(objs["self"]) : Table("self")[s][ABSORB] = 0

C9_Step ==
    (/\ last'.op = "set_goal" /\ last'.arg # None
     /\ last'.arg[1] \notin States(objs[last'.obj]))
    => (last'.res.exc # "none" /\ heap' = heap)

\* C9: set_goal(g) with an integer g outside [0, rows*cols) fails with an
\* error and leaves the rewards table exactly as it was before the call.
C9_OutOfRangeGoalRejected == [][C9_Step]_vars

----------------------------------------------------------------------------
(* Claims checked under SpecCopy *)

C4_AtCopy ==
    last.op = "copy" =>
        /\ "cp" \in DOMAIN objs
        /\ objs["cp"].rows = objs["self"].rows
        /\ objs["cp"].cols = objs["self"].cols
        /\ Table("cp") = Table("self")

C4_Separate == "cp" \in DOMAIN objs => objs["cp"].rewards # objs["self"].rewards

C4_Untouched ==
    "cp" \in DOMAIN objs =>
        \A o \in {"self", "cp"} :
            last'.obj # o => heap'[objs'[o].rewards] = heap[objs[o].rewards]

\* C4: copy() returns an instance with the source's rows and cols and a
\* table equal to the source's entry for entry; the two tables are distinct
\* arrays, and no later call on one instance changes an entry of the other's
\* table.
C4_CopyIndependent == [](C4_AtCopy /\ C4_Separate) /\ [][C4_Untouched]_vars

\* After the copy, set_goal on the copy has made the two tables differ.
C4_Witness ==
    /\ "cp" \in DOMAIN objs
    /\ last.op = "set_goal" /\ last.obj = "cp" /\ last.arg # None
    /\ Table("cp") # Table("self")

\* C10: the state_rewards vector of the instance copy() returns equals the
\* source's state_rewards.
C10_CopyStateRewards ==
    "cp" \in DOMAIN objs => objs["cp"].state_rewards = objs["self"].state_rewards

----------------------------------------------------------------------------
(* Claims checked under SpecFn *)

C5_Case ==
    /\ last.op = "_transition"
    /\ last.arg[1] \in States(objs["self"])
    /\ last.arg[2] \in Actions

\* C5: for a valid state s and an action a, _transition does not raise and
\* returns a valid state: the state of s's cell shifted by the action's delta
\* when that cell is in the grid (not illegal), and s itself, illegal,
\* otherwise; ABSORB returns s, not illegal.
C5_Transition ==
    C5_Case =>
        LET o == objs["self"]
            s == last.arg[1]
            a == last.arg[2]
            dest == Moved(o, s, a)
            illegal == dest \notin Cells(o)
            s_prime == IF illegal THEN s ELSE dest[1] * o.cols + dest[2]
        IN /\ last.res.exc = "none"
           /\ last.res.val = IF last.arg[3] THEN <<s_prime, illegal>> ELSE s_prime
           /\ s_prime \in States(o)
           /\ a = ABSORB => (s_prime = s /\ ~illegal)

\* A diagonal move whose row stays in the grid and whose column leaves it was
\* reported illegal, the state unchanged.
C5_Witness ==
    /\ C5_Case
    /\ last.arg[2] = UP_RIGHT /\ last.arg[3]
    /\ CellOf(objs["self"], last.arg[1])[1] > 0
    /\ CellOf(objs["self"], last.arg[1])[2] = objs["self"].cols - 1
    /\ last.res = Ok(<<last.arg[1], TRUE>>)

\* C6: state_to_coor of a valid state is a cell of the grid that coor_to_state
\* maps back to the state, and coor_to_state of a cell of the grid is
\* r * cols + c, which state_to_coor maps back to the cell.
C6_Inverses ==
    /\ (last.op = "state_to_coor" /\ last.arg[1] \in States(objs["self"])) =>
          /\ last.res.exc = "none"
          /\ last.res.val \in Cells(objs["self"])
          /\ coor_to_state(objs["self"], last.res.val[1], last.res.val[2])
                = Ok(last.arg[1])
    /\ (last.op = "coor_to_state" /\ last.arg \in Cells(objs["self"])) =>
          /\ last.res = Ok(last.arg[1] * objs["self"].cols + last.arg[2])
          /\ state_to_coor(objs["self"], last.res.val) = Ok(last.arg)

\* coor_to_state has returned for a cell below the first row of a grid whose
\* rows and cols differ.
C6_Witness ==
    /\ last.op = "coor_to_state" /\ last.arg \in Cells(objs["self"])
    /\ objs["self"].rows # objs["self"].cols
    /\ (last.arg[1] > 0 \/ last.arg[2] > 0)
    /\ last.res.exc = "none"

\* C7: coor_to_state raises for every (r, c) outside the grid, and
\* state_to_coor raises for every integer outside [0, rows*cols), the
\* negative ones included.
C7_OutOfBoundsRaises ==
    /\ (last.op = "coor_to_state" /\ last.arg \notin Cells(objs["self"])) =>
          last.res.exc # "none"
    /\ (last.op = "state_to_coor" /\ last.arg[1] \notin States(objs["self"])) =>
          last.res.exc # "none"

====
